---------------------------- MODULE Spec2Model ----------------------------
(***************************************************************************)
(* A model of src/convert.ts: the `convert` command, which turns a FHIR    *)
(* CodeSystem (a JSON document) or a CSV file into a FHIR ValueSet and      *)
(* prints it or writes it to a file.                                        *)
(*                                                                          *)
(* JavaScript values are modelled as follows.                               *)
(*   - a string is a sequence of atoms: one-character strings for the CSV   *)
(*     text (so that split() really splits), and whole chunks such as       *)
(*     ".csv" or "draft" for paths and option values;                       *)
(*   - `undefined` is the one-element sequence Undefined, whose atom is no  *)
(*     atom of any string, and the boolean `true` is True likewise;         *)
(*   - an object is a function from property names to values, a property    *)
(*     the object lacks being one outside its DOMAIN.                       *)
(***************************************************************************)
EXTENDS Naturals, Sequences, FiniteSets, TLC

VARIABLES
    file,       \* the positional argument <file>
    content,    \* what is stored under that path: CSV text or a CodeSystem
    args,       \* the options as given on the command line
    pc,         \* where the action callback is
    lines,      \* csvToValueSet: const lines
    i,          \* csvToValueSet: the loop variable
    include,    \* csvToValueSet: const include
    valueSet,   \* the action callback: let valueSet
    printed,    \* what console.log received, in order
    written,    \* what fs.writeFileSync received, in order
    err         \* the exception that ended the callback, if any

vars == <<file, content, args, pc, lines, i, include, valueSet, printed, written, err>>

---------------------------------------------------------------------------
(* JavaScript values *)

Undefined == <<"undefined">>

True == <<"true">>

\* !v is false exactly for these (among the values that occur here).
Truthy(v) == v # Undefined /\ v # <<>>

\* obj[p], undefined when obj has no property p.
Get(obj, p) == IF p \in DOMAIN obj THEN obj[p] ELSE Undefined

\* a || b
OrElse(a, b) == IF Truthy(a) THEN a ELSE b

---------------------------------------------------------------------------
(* Strings *)

\* The least index of sep in s, 0 when there is none.
IndexOf(s, sep) ==
    IF \E k \in 1..Len(s) : s[k] = sep
    THEN CHOOSE k \in 1..Len(s) : s[k] = sep /\ \A j \in 1..(k-1) : s[j] # sep
    ELSE 0

\* String.prototype.split with a one-character separator: the pieces
\* between the separators, [""] for the empty string.
RECURSIVE Split(_, _)
Split(s, sep) ==
    LET k == IndexOf(s, sep)
    IN  IF k = 0 THEN <<s>>
        ELSE <<SubSeq(s, 1, k-1)>> \o Split(SubSeq(s, k+1, Len(s)), sep)

\* file.endsWith(ext), ext one atom.
EndsWith(s, ext) == Len(s) > 0 /\ s[Len(s)] = ext

\* s.replace(/<ext>$/, to): the trailing ext replaced, s itself when it
\* does not end in ext.
ReplaceExt(s, ext, to) ==
    IF EndsWith(s, ext) THEN SubSeq(s, 1, Len(s)-1) \o to ELSE s

\* The greatest index of "/" in p, 0 when there is none.
LastSlash(p) ==
    IF \E k \in 1..Len(p) : p[k] = "/"
    THEN CHOOSE k \in 1..Len(p) : p[k] = "/" /\ \A j \in (k+1)..Len(p) : p[j] # "/"
    ELSE 0

\* path.basename(p), for a path that does not end in a separator.
Basename(p) == SubSeq(p, LastSlash(p) + 1, Len(p))

---------------------------------------------------------------------------
(* csvToValueSet *)

\* const [code, system, display] = line.split(','): a missing element is
\* undefined, elements past the third are dropped.
Destructure(line) ==
    LET f == Split(line, ",")
    IN  [code    |-> f[1],
         system  |-> IF Len(f) >= 2 THEN f[2] ELSE Undefined,
         display |-> IF Len(f) >= 3 THEN f[3] ELSE Undefined]

\* A variant that skips a line only when the whole line is empty.
SkipLineMutant(line) == line = <<>>

\* if (!code) { continue; }
SkipLine(line) == ~Truthy(Destructure(line).code)

\* A variant that looks at the last group only.
FindIndexMutant(inc, system) ==
    IF Len(inc) > 0 /\ inc[Len(inc)].system = system THEN Len(inc) ELSE 0

\* include.findIndex((group) => group.system === system), counted from 1,
\* 0 for JavaScript's -1.
FindIndex(inc, system) ==
    IF \E k \in 1..Len(inc) : inc[k].system = system
    THEN CHOOSE k \in 1..Len(inc) :
            /\ inc[k].system = system
            /\ \A j \in 1..(k-1) : inc[j].system # system
    ELSE 0

\* A variant that takes a missing system for the empty string.
AddRecordMutant(inc, line) ==
    LET r == Destructure(line)
        sys == OrElse(r.system, <<>>)
        c == [code |-> r.code, display |-> r.display]
        systemIndex == FindIndex(inc, sys)
    IN  IF systemIndex # 0
        THEN [inc EXCEPT ![systemIndex].concept = Append(@, c)]
        ELSE Append(inc, [system |-> sys, concept |-> <<c>>])

\* The body of the loop for a line that is not skipped. A group made here
\* always has a concept list, so the `if (!include[systemIndex].concept)`
\* branch is never taken.
AddRecord(inc, line) ==
    LET r == Destructure(line)
        c == [code |-> r.code, display |-> r.display]
        systemIndex == FindIndex(inc, r.system)
    IN  IF systemIndex # 0
        THEN [inc EXCEPT ![systemIndex].concept = Append(@, c)]
        ELSE Append(inc, [system |-> r.system, concept |-> <<c>>])

\* const id = options.id || path.basename(options.csvFile).replace(/\.csv$/, '')
CsvId(options) ==
    OrElse(options.id, ReplaceExt(Basename(options.csvFile), ".csv", <<>>))

\* A variant that builds the default from the file name, not from id.
CsvUrlMutant(options, id) ==
    OrElse(options.url,
           <<"http://hl7.org/fhir/ValueSet/">>
               \o ReplaceExt(Basename(options.csvFile), ".csv", <<>>))

\* url: options.url || `http://hl7.org/fhir/ValueSet/${id}`
CsvUrl(options, id) ==
    OrElse(options.url, <<"http://hl7.org/fhir/ValueSet/">> \o id)

\* The ValueSet csvToValueSet returns, given the groups the loop built.
CsvValueSet(options, inc) ==
    LET id == CsvId(options)
    IN  [resourceType |-> <<"ValueSet">>,
         id           |-> id,
         url          |-> CsvUrl(options, id),
         name         |-> OrElse(options.name, id),
         description  |-> options.description,
         status       |-> OrElse(options.status, <<"active">>),
         compose      |-> [include |-> inc]]

---------------------------------------------------------------------------
(* codeSystemToValueSet *)

\* A variant that reads the constant codeSystem of line 25.
OptionsCodeSystemMutant(options, codeSystem) ==
    [defined |-> TRUE, value |-> codeSystem]

\* The value of the expression `options.codeSystem`. The callback passes an
\* object with the properties jsonFile, status, url, name, description and
\* id; the constant codeSystem of line 25 is in scope but is not a property
\* of options.
OptionsCodeSystem(options, codeSystem) ==
    IF "codeSystem" \in DOMAIN options
    THEN [defined |-> TRUE, value |-> options.codeSystem]
    ELSE [defined |-> FALSE]

\* for (const property in options): the properties in creation order.
OptionKeys == <<"jsonFile", "status", "url", "name", "description", "id">>

\* The loop of lines 27-32 from the k-th property on. && evaluates
\* `options.codeSystem.hasOwnProperty` only for a falsy option, and that
\* throws a TypeError when options.codeSystem is undefined.
RECURSIVE FillIn(_, _, _)
FillIn(options, cs, k) ==
    IF k > Len(OptionKeys) THEN [threw |-> FALSE, options |-> options]
    ELSE LET property == OptionKeys[k]
         IN  IF Truthy(options[property]) THEN FillIn(options, cs, k + 1)
             ELSE IF ~cs.defined THEN [threw |-> TRUE, options |-> options]
             ELSE IF property \in DOMAIN cs.value
                  THEN FillIn([options EXCEPT ![property] = cs.value[property]],
                              cs, k + 1)
                  ELSE FillIn(options, cs, k + 1)

\* The callback of options.codeSystem.concept.map
MapConcept(concept) ==
    [code       |-> Get(concept, "code"),
     display    |-> Get(concept, "display"),
     definition |-> Get(concept, "definition")]

\* codeSystemToValueSet(options), codeSystem being what require() loaded:
\* the ValueSet returned, or the exception thrown.
CodeSystemToValueSet(options, codeSystem) ==
    LET cs == OptionsCodeSystem(options, codeSystem)
        filled == FillIn(options, cs, 1)
        o == filled.options
    IN  IF filled.threw \/ ~cs.defined
        THEN [threw |-> TRUE, error |-> "TypeError"]
        ELSE IF "concept" \notin DOMAIN cs.value
        THEN [threw |-> TRUE,
              error |-> "Error: CodeSystem must have at least one concept"]
        ELSE [threw |-> FALSE,
              value |->
                [resourceType |-> <<"ValueSet">>,
                 id           |-> o.id,
                 url          |-> o.url,
                 name         |-> o.name,
                 description  |-> o.description,
                 status       |-> o.status,
                 compose      |-> [include |->
                    << [system  |-> Get(cs.value, "url"),
                        concept |-> [k \in 1..Len(cs.value.concept) |->
                                        MapConcept(cs.value.concept[k])]] >>]]]

---------------------------------------------------------------------------
(* The command *)

\* A variant in which the option has no default.
StatusOptionMutant(a) == a.status

\* .option('-s, --status <status>', 'ValueSet status', 'draft')
StatusOption(a) == IF a.status = Undefined THEN <<"draft">> ELSE a.status

\* The options commander hands to the action callback. --output [file]
\* is undefined when absent, true when given without a value.
ProgramOptions(a) ==
    [output      |-> a.output,
     url         |-> a.url,
     name        |-> a.name,
     description |-> a.description,
     id          |-> a.id,
     status      |-> StatusOption(a)]

\* The object literal the callback passes to either converter.
ConverterOptions(fileKey, f, options) ==
    (fileKey :> f) @@
    [status      |-> options.status,
     url         |-> options.url,
     name        |-> options.name,
     description |-> options.description,
     id          |-> options.id]

\* A variant without the second replace.
DerivedOutFileMutant(f) == ReplaceExt(f, ".json", <<"-value-set", ".json">>)

\* outFile when --output has no value.
DerivedOutFile(f) ==
    ReplaceExt(ReplaceExt(f, ".json", <<"-value-set", ".json">>),
               ".csv", <<".json">>)

\* JSON.stringify leaves out a property whose value is undefined.
OmitUndefined(obj, keys) ==
    [p \in {q \in keys : obj[q] # Undefined} |-> obj[p]]

StringifyGroup(g) ==
    LET cs == [k \in 1..Len(g.concept) |->
                  OmitUndefined(g.concept[k], DOMAIN g.concept[k])]
    IN  IF g.system = Undefined
        THEN [concept |-> cs]
        ELSE [system |-> g.system, concept |-> cs]

Stringify(vs) ==
    OmitUndefined(vs, DOMAIN vs \ {"compose"}) @@
    [compose |-> [include |-> [k \in 1..Len(vs.compose.include) |->
                                  StringifyGroup(vs.compose.include[k])]]]

NoValueSet == [resourceType |-> <<"none">>]

---------------------------------------------------------------------------
(* Actions *)

IsCsv == EndsWith(file, ".csv")

\* Lines 77-81: the file is read and split, the loop starts at line 1.
CsvRead ==
    /\ pc = "start"
    /\ IsCsv
    /\ lines' = Split(content, "\n")
    /\ i' = 1
    /\ include' = <<>>
    /\ pc' = "csvLoop"
    /\ UNCHANGED <<file, content, args, valueSet, printed, written, err>>

\* Lines 82-102: one iteration of the loop.
CsvLine ==
    /\ pc = "csvLoop"
    /\ i < Len(lines)
    /\ include' = IF SkipLine(lines[i + 1]) THEN include
                  ELSE AddRecord(include, lines[i + 1])
    /\ i' = i + 1
    /\ UNCHANGED <<file, content, args, pc, lines, valueSet, printed, written, err>>

\* Lines 104-119: the loop is over, the ValueSet is built and returned.
CsvReturn ==
    /\ pc = "csvLoop"
    /\ i >= Len(lines)
    /\ valueSet' = CsvValueSet(ConverterOptions("csvFile", file, ProgramOptions(args)),
                               include)
    /\ pc' = "output"
    /\ UNCHANGED <<file, content, args, lines, i, include, printed, written, err>>

\* Lines 144-153: the other branch, codeSystemToValueSet as a whole. An
\* exception it throws is not caught: the callback ends there.
ConvertCodeSystem ==
    /\ pc = "start"
    /\ ~IsCsv
    /\ LET r == CodeSystemToValueSet(
                    ConverterOptions("jsonFile", file, ProgramOptions(args)), content)
       IN  IF r.threw
           THEN /\ err' = r.error
                /\ pc' = "failed"
                /\ UNCHANGED valueSet
           ELSE /\ valueSet' = r.value
                /\ pc' = "output"
                /\ UNCHANGED err
    /\ UNCHANGED <<file, content, args, lines, i, include, printed, written>>

\* Lines 154-166: the document is serialized, then written or printed.
WriteOutput ==
    /\ pc = "output"
    /\ LET options == ProgramOptions(args)
           jsonStr == Stringify(valueSet)
           outFile == IF options.output = True THEN DerivedOutFile(file)
                      ELSE options.output
       IN  IF Truthy(options.output)
           THEN /\ written' = Append(written, [path |-> outFile, data |-> jsonStr])
                /\ UNCHANGED printed
           ELSE /\ printed' = Append(printed, jsonStr)
                /\ UNCHANGED written
    /\ pc' = "done"
    /\ UNCHANGED <<file, content, args, lines, i, include, valueSet, err>>

---------------------------------------------------------------------------
(* Inputs *)

\* The characters of the CSV texts that are enumerated in full: one
\* ordinary character and the two separators.
Chars == {"a", ",", "\n"}

\* The greatest length of an enumerated CSV text.
MaxLen == 9

Texts == UNION {[1..n -> Chars] : n \in 0..MaxLen}

\* The CSV text of the specification's first end-to-end scenario, with
\* short names, and a text that holds a header line only.
CsvSamples ==
    { <<"h", "\n", "A", ",", "s", ",", "x", "\n", "B", ",", "s", ",", "y", "\n",
        "C", ",", "t", ",", "z", "\n">>,
      <<"h", ",", "h">> }

CsvFiles == { <<"codes", ".csv">>, <<"dir", "/", "codes", ".csv">> }

JsonFiles == { <<"cs", ".json">>, <<"dir", "/", "cs">> }

ConceptA == [code |-> <<"A">>, display |-> <<"Alpha">>]

ConceptB == [code |-> <<"B">>, display |-> <<"Beta">>, definition |-> <<"second">>]

CodeSystems ==
    { [url |-> <<"http://sys">>, concept |-> <<ConceptA>>],
      [url |-> <<"http://sys">>, concept |-> <<>>],
      [url |-> <<"http://sys">>],
      [url |-> <<"http://sys">>, name |-> <<"SysName">>, id |-> <<"sys-id">>,
       description |-> <<"about">>, status |-> <<"retired">>,
       concept |-> <<ConceptA, ConceptB>>] }

\* What the command line may give for each option: nothing, the empty
\* string, a value; --output may also come without a value.
ArgSets ==
    [output      : {Undefined, True, <<>>, <<"out", ".json">>},
     url         : {Undefined, <<>>, <<"http://example.org/vs">>},
     name        : {Undefined, <<>>, <<"MyName">>},
     description : {Undefined, <<"words">>},
     id          : {Undefined, <<>>, <<"my-id">>},
     status      : {Undefined, <<>>, <<"active">>, <<"retired">>}]

NoArgs ==
    [output |-> Undefined, url |-> Undefined, name |-> Undefined,
     description |-> Undefined, id |-> Undefined, status |-> Undefined]

\* The state when the action callback is entered.
Entered ==
    /\ pc = "start"
    /\ lines = <<>>
    /\ i = 0
    /\ include = <<>>
    /\ valueSet = NoValueSet
    /\ printed = <<>>
    /\ written = <<>>
    /\ err = "none"

\* Any command line, over a stored file of either kind.
Init ==
    /\ \/ file \in CsvFiles /\ content \in CsvSamples
       \/ file \in JsonFiles /\ content \in CodeSystems
    /\ args \in ArgSets
    /\ Entered

\* A CSV file of any text up to MaxLen characters, converted with no option.
InitCsv ==
    /\ file = <<"codes", ".csv">>
    /\ content \in Texts
    /\ args = NoArgs
    /\ Entered

Next == CsvRead \/ CsvLine \/ CsvReturn \/ ConvertCodeSystem \/ WriteOutput

NextCsv == CsvRead \/ CsvLine \/ CsvReturn \/ WriteOutput

Spec == Init /\ [][Next]_vars

SpecCsv == InitCsv /\ [][NextCsv]_vars

---------------------------------------------------------------------------
(* What the properties below speak of *)

IsStructured == ~IsCsv

\* The callback has returned or thrown.
Ended == pc \in {"done", "failed"}

\* Every output event so far: the documents printed, then those written.
Outputs == printed \o [k \in 1..Len(written) |-> written[k].data]

RECURSIVE TotalConcepts(_)
TotalConcepts(inc) ==
    IF inc = <<>> THEN 0 ELSE Len(inc[1].concept) + TotalConcepts(Tail(inc))

\* The positions of the text at which a line after the header starts.
LineStarts(t) == {p \in 2..Len(t) : t[p-1] = "\n"}

\* The lines after the header that are not empty.
NonEmptyLineCount(t) == Cardinality({p \in LineStarts(t) : t[p] # "\n"})

\* The lines after the header whose first field is not empty.
CodeLineCount(t) == Cardinality({p \in LineStarts(t) : t[p] \notin {"\n", ","}})

HasComma(line) == \E k \in 1..Len(line) : line[k] = ","

\* A line that holds a code and nothing else.
CodeOnly(line) == line # <<>> /\ ~HasComma(line)

\* A line that holds a code and then an empty second field.
EmptySystem(line) ==
    \E k \in 2..Len(line) :
        /\ line[k] = ","
        /\ \A j \in 1..(k-1) : line[j] # ","
        /\ (k = Len(line) \/ line[k+1] = ",")

\* The records of the lines ls, in order: the lines with a code.
HasCode(line) == line # <<>> /\ line[1] # ","

RecordsOf(ls) ==
    LET kept == SelectSeq(ls, HasCode)
    IN  [k \in 1..Len(kept) |-> Destructure(kept[k])]

\* The lines the loop has dealt with, and their records.
LinesDone == SubSeq(lines, 2, i)

RecordsDone == RecordsOf(LinesDone)

\* The groups the callback holds: those of the loop while it runs, those
\* of the ValueSet afterwards.
Groups == IF pc = "csvLoop" THEN include ELSE valueSet.compose.include

InFlatRun == IsCsv /\ pc \in {"csvLoop", "output", "done"}

FirstAt(recs, system) ==
    CHOOSE k \in 1..Len(recs) :
        recs[k].system = system /\ \A j \in 1..(k-1) : recs[j].system # system

ConceptsOf(recs, system) ==
    LET Same(r) == r.system = system
        same == SelectSeq(recs, Same)
    IN  [k \in 1..Len(same) |-> [code |-> same[k].code, display |-> same[k].display]]

---------------------------------------------------------------------------
(* C1 *)

NoConcepts == "concept" \notin DOMAIN content \/ content.concept = <<>>

\* C1: a structured document whose concept list is absent or empty ends
\* in failure whatever the options, and nothing is printed or written at
\* any point of the invocation.
C1_NoConceptsFails ==
    (IsStructured /\ NoConcepts) =>
        /\ printed = <<>>
        /\ written = <<>>
        /\ valueSet = NoValueSet
        /\ pc \in {"start", "failed"}
        /\ (pc = "failed") = (err # "none")

C1_Witness ==
    /\ IsStructured
    /\ "concept" \in DOMAIN content
    /\ content.concept = <<>>
    /\ args.output = True
    /\ Truthy(args.url) /\ Truthy(args.name) /\ Truthy(args.id)
    /\ pc = "failed"

---------------------------------------------------------------------------
(* C2 *)

HasConcepts == "concept" \in DOMAIN content /\ content.concept # <<>>

\* C2: a structured document with a non-empty concept list converts
\* without error, whatever the options, into one inclusion group whose
\* system is the document's url and whose concepts are the document's, in
\* order, with the same code, display and definition.
C2_StructuredConverts ==
    (IsStructured /\ HasConcepts /\ pc # "start") =>
        /\ err = "none"
        /\ pc \in {"output", "done"}
        /\ Len(valueSet.compose.include) = 1
        /\ valueSet.compose.include[1].system = Get(content, "url")
        /\ Len(valueSet.compose.include[1].concept) = Len(content.concept)
        /\ \A k \in 1..Len(content.concept) :
              \A f \in {"code", "display", "definition"} :
                  valueSet.compose.include[1].concept[k][f] = Get(content.concept[k], f)

---------------------------------------------------------------------------
(* C3 *)

\* C3: on the structured path each of url, name, description and id of
\* the output is the caller's non-empty value, else the document's field
\* of that name, else unset.
C3_FieldDefaulting ==
    (IsStructured /\ HasConcepts /\ pc # "start") =>
        /\ pc \in {"output", "done"}
        /\ \A f \in {"url", "name", "description", "id"} :
              /\ Truthy(args[f]) => valueSet[f] = args[f]
              /\ (args[f] = Undefined /\ f \in DOMAIN content) => valueSet[f] = content[f]
              /\ (args[f] = Undefined /\ f \notin DOMAIN content) => valueSet[f] = Undefined

---------------------------------------------------------------------------
(* C4 *)

\* C4: every document printed or written, on either path, holds at least
\* one inclusion group, and each of its groups holds at least one concept.
C4_OutputHasConcepts ==
    \A k \in 1..Len(Outputs) :
        /\ Len(Outputs[k].compose.include) >= 1
        /\ \A g \in 1..Len(Outputs[k].compose.include) :
              Len(Outputs[k].compose.include[g].concept) >= 1

---------------------------------------------------------------------------
(* C5 *)

\* C5: on the flat path, after every prefix of the record sequence, no two
\* groups have the same system, the groups stand in the order in which
\* their systems first occur among the records, and each group holds the
\* concepts of its records in arrival order, duplicates included.
C5_GroupOrder ==
    InFlatRun =>
        /\ \A p, q \in 1..Len(Groups) : p # q => Groups[p].system # Groups[q].system
        /\ {Groups[p].system : p \in 1..Len(Groups)}
              = {RecordsDone[k].system : k \in 1..Len(RecordsDone)}
        /\ \A p, q \in 1..Len(Groups) :
              p < q => FirstAt(RecordsDone, Groups[p].system)
                          < FirstAt(RecordsDone, Groups[q].system)
        /\ \A p \in 1..Len(Groups) :
              Groups[p].concept = ConceptsOf(RecordsDone, Groups[p].system)

\* The loop has taken three records, of which the third went to the group
\* of the first, past the group of the second.
C5_Witness ==
    /\ pc = "csvLoop"
    /\ Len(RecordsDone) = 3
    /\ Len(include) = 2
    /\ Len(include[1].concept) = 2
    /\ RecordsDone[2].system = include[2].system
    /\ RecordsDone[3].system = include[1].system

---------------------------------------------------------------------------
(* C6 *)

\* C6 as stated: the concept lists of the output together hold as many
\* concepts as the text has non-empty lines after the header.
C6_CountsNonEmptyLines ==
    (IsCsv /\ pc \in {"output", "done"}) =>
        TotalConcepts(valueSet.compose.include) = NonEmptyLineCount(content)

\* C6, amended: the concept lists of the output together hold as many
\* concepts as the text has lines after the header whose first field is
\* not empty, whatever the header line holds.
C6_CountsCodeLines ==
    /\ (IsCsv /\ pc \in {"output", "done"}) =>
          TotalConcepts(valueSet.compose.include) = CodeLineCount(content)
    /\ \A k \in 1..Len(Outputs) :
          IsCsv => TotalConcepts(Outputs[k].compose.include) = CodeLineCount(content)

\* A finished run over a text with a header that holds a code, a line
\* with an empty code field and two records.
C6_Witness ==
    /\ IsCsv
    /\ pc = "done"
    /\ content # <<>> /\ content[1] = "a"
    /\ \E p \in LineStarts(content) : content[p] = ","
    /\ TotalConcepts(valueSet.compose.include) = 2

---------------------------------------------------------------------------
(* C10 *)

\* C10: on the flat path the records of code-only lines (system absent)
\* form one group, the records with an empty system field form another,
\* the two are never merged, and a group holds exactly the records whose
\* system is literally its own; a code-only line yields a concept with the
\* line as its code and no display.
C10_LiteralSystems ==
    InFlatRun =>
        LET codeOnly == SelectSeq(LinesDone, CodeOnly)
            emptySys == SelectSeq(LinesDone, EmptySystem)
            absent == {p \in 1..Len(Groups) : Groups[p].system = Undefined}
            empty == {p \in 1..Len(Groups) : Groups[p].system = <<>>}
        IN  /\ Cardinality(absent) = IF codeOnly = <<>> THEN 0 ELSE 1
            /\ Cardinality(empty) = IF emptySys = <<>> THEN 0 ELSE 1
            /\ absent \cap empty = {}
            /\ \A p \in absent :
                  Groups[p].concept =
                      [k \in 1..Len(codeOnly) |->
                          [code |-> codeOnly[k], display |-> Undefined]]
            /\ \A p \in empty :
                  /\ Len(Groups[p].concept) = Len(emptySys)
                  /\ \A k \in 1..Len(emptySys) :
                        Groups[p].concept[k].code = Split(emptySys[k], ",")[1]
            /\ TotalConcepts(Groups) = Len(RecordsDone)

\* Two code-only records have shared a group while a record with an empty
\* system field, which arrived between them, has one of its own.
C10_Witness ==
    /\ pc = "csvLoop"
    /\ Len(LinesDone) = 3
    /\ CodeOnly(LinesDone[1]) /\ EmptySystem(LinesDone[2]) /\ CodeOnly(LinesDone[3])
    /\ Len(include) = 2
    /\ include[1].system = Undefined /\ Len(include[1].concept) = 2
    /\ include[2].system = <<>> /\ Len(include[2].concept) = 1

---------------------------------------------------------------------------
(* C7 *)

FlatConverted == IsCsv /\ pc \in {"output", "done"}

\* C7 as stated, a given status being read as a non-empty one: on the
\* flat path the status of the output is `active` when no --status is
\* given, the given value otherwise, and never unset.
C7_StatusDefaultsToActive ==
    FlatConverted =>
        /\ args.status = Undefined => valueSet.status = <<"active">>
        /\ Truthy(args.status) => valueSet.status = args.status
        /\ valueSet.status # Undefined

\* C7, amended: on the flat path the status of the output is `draft`, the
\* default of the command's option, when no --status is given, the given
\* value when it is not empty, and `active` when it is empty; it is never
\* unset, in the ValueSet or in its serialized form.
C7_StatusResolved ==
    /\ FlatConverted =>
          /\ args.status = Undefined => valueSet.status = <<"draft">>
          /\ Truthy(args.status) => valueSet.status = args.status
          /\ args.status = <<>> => valueSet.status = <<"active">>
          /\ valueSet.status \notin {Undefined, <<>>}
    /\ IsCsv => \A k \in 1..Len(Outputs) :
          "status" \in DOMAIN Outputs[k] /\ Outputs[k].status = valueSet.status

C7_Witness ==
    /\ IsCsv
    /\ pc = "done"
    /\ args.status = Undefined
    /\ Len(printed) = 1
    /\ printed[1].status = <<"draft">>

---------------------------------------------------------------------------
(* C8 *)

\* id is the last segment of the path f without its .csv extension.
IsStemOf(id, f) ==
    /\ \A k \in 1..Len(id) : id[k] # "/"
    /\ \E n \in 0..Len(f) :
          /\ n = 0 \/ f[n] = "/"
          /\ f = SubSeq(f, 1, n) \o id \o <<".csv">>

\* C8 as stated: on the flat path id, url and name are the caller's when
\* supplied, and otherwise the stem of the file name, the base path
\* followed by the resolved id, and the resolved id.
C8_SuppliedWins ==
    FlatConverted =>
        /\ IF args.id # Undefined THEN valueSet.id = args.id
           ELSE IsStemOf(valueSet.id, file)
        /\ valueSet.url = IF args.url # Undefined THEN args.url
                          ELSE <<"http://hl7.org/fhir/ValueSet/">> \o valueSet.id
        /\ valueSet.name = IF args.name # Undefined THEN args.name ELSE valueSet.id
        /\ valueSet.description = args.description

\* C8, amended: on the flat path id, url and name are the caller's when
\* supplied and not empty, and otherwise the stem of the file name, the
\* base path followed by the resolved id, and the resolved id; the
\* description is the caller's or unset, and then absent from the
\* serialized document.
C8_NonEmptyWins ==
    /\ FlatConverted =>
          /\ IF Truthy(args.id) THEN valueSet.id = args.id
             ELSE IsStemOf(valueSet.id, file)
          /\ valueSet.url = IF Truthy(args.url) THEN args.url
                            ELSE <<"http://hl7.org/fhir/ValueSet/">> \o valueSet.id
          /\ valueSet.name = IF Truthy(args.name) THEN args.name ELSE valueSet.id
          /\ valueSet.description = args.description
    /\ IsCsv => \A k \in 1..Len(Outputs) :
          /\ Outputs[k].id = valueSet.id
          /\ Outputs[k].url = valueSet.url
          /\ Outputs[k].name = valueSet.name
          /\ ("description" \in DOMAIN Outputs[k]) = (args.description # Undefined)

\* An explicit id, with url and name left out, under a file in a directory.
C8_Witness ==
    /\ IsCsv
    /\ pc = "done"
    /\ LastSlash(file) > 0
    /\ args.id = <<"my-id">>
    /\ args.url = Undefined
    /\ args.name = Undefined
    /\ valueSet.url = <<"http://hl7.org/fhir/ValueSet/", "my-id">>
    /\ valueSet.name = <<"my-id">>

---------------------------------------------------------------------------
(* C9 *)

\* The path written when --output has no value.
IsDerivedFrom(path, f) ==
    \E n \in 0..Len(f) :
        LET stem == SubSeq(f, 1, n)
        IN  \/ f = stem \o <<".csv">> /\ path = stem \o <<".json">>
            \/ f = stem \o <<".json">> /\ path = stem \o <<"-value-set", ".json">>

PrintedOnly == Len(printed) = 1 /\ written = <<>> /\ printed[1] = Stringify(valueSet)

WrittenOnly == Len(written) = 1 /\ printed = <<>> /\ written[1].data = Stringify(valueSet)

\* C9 as stated: a run that completes prints the document when --output
\* is absent, writes it to the given path when --output has a value, and
\* writes it to the path derived from the input when --output has none.
C9_OutputGivenIsWritten ==
    pc = "done" =>
        /\ args.output = Undefined => PrintedOnly
        /\ args.output \notin {Undefined, True} =>
              WrittenOnly /\ written[1].path = args.output
        /\ args.output = True =>
              WrittenOnly /\ IsDerivedFrom(written[1].path, file)

\* C9, amended: no output event happens before the conversion has
\* completed, and then exactly one: the document is printed when --output
\* is absent or empty, written to the given path when --output has a
\* non-empty value, and written to the input path with its extension
\* replaced when --output has no value.
C9_OneOutputEvent ==
    /\ pc # "done" => printed = <<>> /\ written = <<>>
    /\ pc = "done" =>
          /\ args.output \in {Undefined, <<>>} => PrintedOnly
          /\ Truthy(args.output) /\ args.output # True =>
                WrittenOnly /\ written[1].path = args.output
          /\ args.output = True =>
                WrittenOnly /\ IsDerivedFrom(written[1].path, file)

C9_Witness ==
    /\ pc = "done"
    /\ args.output = True
    /\ file = <<"dir", "/", "codes", ".csv">>
    /\ written = <<[path |-> <<"dir", "/", "codes", ".json">>,
                    data |-> Stringify(valueSet)]>>
    /\ printed = <<>>

=============================================================================
